---------------------------- MODULE Spec2Model ----------------------------
(***************************************************************************)
(* A model of the vector index of the multilingual retrieval system        *)
(* (src/indexer.py): one VectorIndex instance at a time, living in one     *)
(* process, and the index directory it shares with the instances before    *)
(* and after it.  Embedding values are small integers, so a score is an    *)
(* exact dot product; row indices are 0-based as in the source.            *)
(***************************************************************************)
EXTENDS Integers, Sequences, FiniteSets, TLC

(***************************************************************************)
(* Bounds of the model.                                                    *)
(***************************************************************************)
MaxDocs == 2
MaxQueries == 2
MaxLanguages == 2

(***************************************************************************)
(* Values.                                                                 *)
(***************************************************************************)
\* Python's None (self.embeddings, self.faiss_index, doc_texts argument).
None == [none |-> TRUE]

\* The unit vectors documents and queries are drawn from: dimension 1 and 2.
Vectors == {<<1>>, <<0 - 1>>, <<0, 1>>}

Dims == {Len(v) : v \in Vectors}

SeqsUpTo(S, n) == UNION {[1..m -> S] : m \in 0..n}

\* A 2-D array: shape (Len(rows), dim).
Matrices ==
    UNION {{[dim |-> d, rows |-> r] :
                r \in SeqsUpTo({v \in Vectors : Len(v) = d}, MaxDocs)} : d \in Dims}

\* Document ids "hi#1", "hi#2", ... as <<language code, number>>, in
\* ascending or descending order of their numbers.
IdsAsc(n) == [i \in 1..n |-> <<"hi", i>>]
IdsDesc(n) == [i \in 1..n |-> <<"hi", n + 1 - i>>]
DocIdLists == {IdsAsc(n) : n \in 0..MaxDocs} \cup {IdsDesc(n) : n \in 0..MaxDocs}
LanguageLists == {[i \in 1..n |-> "hindi"] : n \in 0..MaxDocs}
\* The doc_texts argument: None, or a list of texts (text i of the corpus).
TextLists == {None} \cup {[list |-> [i \in 1..n |-> i]] : n \in 0..MaxDocs}

Backends == {"numpy", "faiss"}
Queries == Vectors
TopKs == (0 - 1)..(MaxDocs + 1)

Min(a, b) == IF a <= b THEN a ELSE b
Max(a, b) == IF a >= b THEN a ELSE b

RECURSIVE Dot(_, _)
Dot(u, v) == IF Len(u) = 0 THEN 0 ELSE Head(u) * Head(v) + Dot(Tail(u), Tail(v))

(***************************************************************************)
(* State.                                                                  *)
(***************************************************************************)
VARIABLES
    FAISS_AVAILABLE,  \* whether the faiss import succeeded in this environment
    backend,          \* self.backend
    embeddings,       \* self.embeddings: None or a matrix
    faiss_index,      \* self.faiss_index: None or a flat inner-product index
    metadata,         \* self.metadata
    files,            \* the index directory: artifact name -> file
    ret,              \* the outcome of the last call
    saved,            \* what the last save that followed a build persisted
    corpus_texts,     \* the retriever's self.corpus_texts: None or a table
    writer,           \* the build or load in progress in a thread, or None
    reader            \* the retrieve in progress in another thread, or None

vars == <<FAISS_AVAILABLE, backend, embeddings, faiss_index, metadata, files,
          ret, saved, corpus_texts, writer, reader>>

instance == <<backend, embeddings, faiss_index, metadata>>

\* What the callers of the instance hold: the retriever's text table and
\* the calls in progress.
callers == <<corpus_texts, writer, reader>>

\* The three artifacts of config.py.
INDEX_FILENAME == "multilingual_index.npz"
METADATA_FILENAME == "document_metadata.json"
FAISS_INDEX_FILENAME == "faiss_index.bin"
Artifacts == {INDEX_FILENAME, METADATA_FILENAME, FAISS_INDEX_FILENAME}

\* A file is absent, truncated (its writer died before closing it), or whole.
Absent == [state |-> "absent"]
Truncated == [state |-> "truncated"]
Whole(data) == [state |-> "whole", data |-> data]
\* An existence check that takes the metadata artifact for granted.
ExistsButMetadata(name) == name = METADATA_FILENAME \/ files[name] # Absent
\* Path.exists()
Exists(name) == files[name] # Absent
Readable(name) == files[name].state = "whole"

\* The metadata dict __init__ creates.
EmptyMetadata(b) ==
    [doc_ids |-> <<>>, languages |-> <<>>, doc_texts |-> <<>>,
     num_documents |-> 0, embedding_dim |-> 0, backend |-> b]

(***************************************************************************)
(* Serialisation.                                                          *)
(***************************************************************************)
\* An archive that misses the last row of the matrix.
SavezDropLast(m) ==
    <<<<"embeddings", m.dim, SubSeq(m.rows, 1, Len(m.rows) - 1)>>>>
\* np.savez_compressed(path, embeddings=...): an archive of named arrays.
Savez(m) == <<<<"embeddings", m.dim, m.rows>>>>
\* np.load(path)['embeddings'].
NpLoad(data) ==
    LET e == CHOOSE a \in {data[i] : i \in 1..Len(data)} : a[1] = "embeddings"
    IN  [dim |-> e[2], rows |-> e[3]]

\* json.dump(self.metadata): the dict's items in insertion order.  The
\* metadata of core/indexer.py has no 'backend' item.
JsonDump(m) ==
    <<<<"doc_ids", m.doc_ids>>, <<"languages", m.languages>>,
      <<"doc_texts", m.doc_texts>>, <<"num_documents", m.num_documents>>,
      <<"embedding_dim", m.embedding_dim>>>>
    \o (IF "backend" \in DOMAIN m THEN <<<<"backend", m.backend>>>> ELSE <<>>)
JsonHas(data, key) == \E i \in 1..Len(data) : data[i][1] = key
JsonGet(data, key) ==
    (CHOOSE kv \in {data[i] : i \in 1..Len(data)} : kv[1] = key)[2]
\* json.load(f).
JsonLoad(data) ==
    LET m == [doc_ids |-> JsonGet(data, "doc_ids"),
              languages |-> JsonGet(data, "languages"),
              doc_texts |-> JsonGet(data, "doc_texts"),
              num_documents |-> JsonGet(data, "num_documents"),
              embedding_dim |-> JsonGet(data, "embedding_dim")]
    IN  IF JsonHas(data, "backend")
        THEN [backend |-> JsonGet(data, "backend")] @@ m
        ELSE m

\* An index that adds the vectors to those the instance's index holds.
AddToFaissIndex(m) ==
    [d |-> m.dim,
     xb |-> (IF faiss_index = None THEN <<>> ELSE faiss_index.xb) \o m.rows]
\* faiss.IndexFlatIP(dim) followed by add(embeddings): d and the stored
\* vectors.  The GPU and the CPU index hold the same vectors, and the
\* embedder's matrix is float32 already, so astype('float32') keeps it.
BuildFaissIndex(m) == [d |-> m.dim, xb |-> m.rows]
\* faiss.write_index / faiss.read_index.
WriteIndex(ix) == <<"IxFI", ix.d, Len(ix.xb), ix.xb>>
ReadIndex(data) == [d |-> data[2], xb |-> data[4]]

\* A call that raised, and a call that returned.
Raised(error) == [ok |-> FALSE, error |-> error]
Completed == [ok |-> TRUE, error |-> None]

(***************************************************************************)
(* __init__                                                                *)
(***************************************************************************)
\* VectorIndex(index_dir, backend=b): raises ImportError for 'faiss' when
\* faiss is not installed, so no instance results.
NewInstance(b) ==
    /\ b = "faiss" => FAISS_AVAILABLE
    /\ backend' = b
    /\ embeddings' = None
    /\ faiss_index' = None
    /\ metadata' = EmptyMetadata(b)
    /\ ret' = [op |-> "init"]
    /\ UNCHANGED <<callers, FAISS_AVAILABLE, files, saved>>

(***************************************************************************)
(* build                                                                   *)
(***************************************************************************)
\* A check of the counts that leaves the texts out.
ShapesAgreeButTexts(e, doc_ids, languages, doc_texts) ==
    /\ Len(doc_ids) = Len(languages)
    /\ Len(languages) = Len(e.rows)
\* The two assertions of build.
ShapesAgree(e, doc_ids, languages, doc_texts) ==
    /\ Len(doc_ids) = Len(languages)
    /\ Len(languages) = Len(e.rows)
    /\ doc_texts # None => Len(doc_texts.list) = Len(e.rows)

BuiltMetadata(e, doc_ids, languages, doc_texts) ==
    [doc_ids |-> doc_ids, languages |-> languages,
     doc_texts |-> IF doc_texts # None THEN doc_texts.list ELSE <<>>,
     num_documents |-> Len(doc_ids), embedding_dim |-> e.dim,
     backend |-> backend]

\* What build reports: whether it returned or what it raised, the counts
\* found among what it was given (matrix rows, doc_ids, languages, and texts
\* when they are given) and, when it returned, the arguments themselves.
BuildReturn(r, e, doc_ids, languages, doc_texts) ==
    [op |-> "build", ok |-> r.ok, error |-> r.error,
     counts |-> {Len(e.rows), Len(doc_ids), Len(languages)}
                    \cup (IF doc_texts # None THEN {Len(doc_texts.list)}
                          ELSE {}),
     given |-> IF r.ok THEN <<e, doc_ids, languages, doc_texts>> ELSE None]

Build(e, doc_ids, languages, doc_texts) ==
    /\ IF ~ShapesAgree(e, doc_ids, languages, doc_texts)
       THEN /\ ret' = BuildReturn(Raised("AssertionError"),
                                  e, doc_ids, languages, doc_texts)
            /\ UNCHANGED <<embeddings, faiss_index, metadata>>
       ELSE IF backend = "faiss" /\ ~FAISS_AVAILABLE
       THEN \* _build_faiss_index raises after self.embeddings was assigned
            /\ embeddings' = e
            /\ ret' = BuildReturn(Raised("ImportError"),
                                  e, doc_ids, languages, doc_texts)
            /\ UNCHANGED <<faiss_index, metadata>>
       ELSE /\ embeddings' = e
            /\ faiss_index' = IF backend = "faiss" THEN BuildFaissIndex(e)
                              ELSE faiss_index
            /\ metadata' = BuiltMetadata(e, doc_ids, languages, doc_texts)
            /\ ret' = BuildReturn(Completed, e, doc_ids, languages, doc_texts)
    /\ UNCHANGED <<callers, FAISS_AVAILABLE, backend, files, saved>>

(***************************************************************************)
(* save                                                                    *)
(***************************************************************************)
\* Whether save writes the native artifact.
WritesFaiss == backend = "faiss" /\ faiss_index # None

\* The artifact save writes under each name, from the instance as it is.
NewArtifact(name) ==
    IF name = INDEX_FILENAME THEN Whole(Savez(embeddings))
    ELSE IF name = METADATA_FILENAME THEN Whole(JsonDump(metadata))
    ELSE Whole(WriteIndex(faiss_index))

\* The order save writes its artifacts in.
SaveOrder ==
    IF WritesFaiss THEN <<INDEX_FILENAME, FAISS_INDEX_FILENAME, METADATA_FILENAME>>
    ELSE <<INDEX_FILENAME, METADATA_FILENAME>>

\* The directory once the first n artifacts of SaveOrder are written; with
\* open, artifact n+1 has been opened for writing (which truncates it) and
\* is not yet closed.
FilesDuringSave(n, open) ==
    [a \in Artifacts |->
        IF \E i \in 1..n : SaveOrder[i] = a THEN NewArtifact(a)
        ELSE IF open /\ n < Len(SaveOrder) /\ SaveOrder[n + 1] = a THEN Truncated
        ELSE files[a]]

Save ==
    /\ IF embeddings = None
       THEN /\ ret' = [op |-> "save", ok |-> FALSE, error |-> "ValueError"]
            /\ UNCHANGED <<files, saved>>
       ELSE /\ files' = FilesDuringSave(Len(SaveOrder), FALSE)
            /\ ret' = [op |-> "save", ok |-> TRUE]
            /\ saved' = IF ret.op = "build" /\ ret.ok
                        THEN [embeddings |-> embeddings, metadata |-> metadata]
                        ELSE None
    /\ UNCHANGED <<callers, FAISS_AVAILABLE, instance>>

\* The process dies inside save, after n artifacts were written and (open)
\* while the next one is being written; the next process constructs a new
\* instance with backend b.
SaveCrash(n, open, b) ==
    /\ embeddings # None
    /\ n < Len(SaveOrder)
    /\ b = "faiss" => FAISS_AVAILABLE
    /\ files' = FilesDuringSave(n, open)
    /\ backend' = b
    /\ embeddings' = None
    /\ faiss_index' = None
    /\ metadata' = EmptyMetadata(b)
    /\ ret' = [op |-> "crash"]
    /\ saved' = None
    /\ UNCHANGED <<callers, FAISS_AVAILABLE>>

(***************************************************************************)
(* load                                                                    *)
(***************************************************************************)
\* The instance is as __init__ left it.
Fresh ==
    /\ embeddings = None
    /\ faiss_index = None
    /\ metadata = EmptyMetadata(backend)

\* A load that keeps the backend the instance was configured with.
KeepBackend(loaded) == backend
\* "Update backend from metadata": the backend load makes active.
ResolveBackend(loaded) ==
    IF "backend" \in DOMAIN loaded /\ loaded.backend # backend
    THEN loaded.backend
    ELSE backend

\* What load reports: its return value, whether the instance was fresh, the
\* backend it was configured with and, for a false return, why.
LoadReturn(ok, why) ==
    [op |-> "load", ok |-> ok, fresh |-> Fresh, configured |-> backend,
     why |-> why]

Load ==
    LET loadedMeta == JsonLoad(files[METADATA_FILENAME].data)
        newBackend == ResolveBackend(loadedMeta)
    IN
    /\ IF ~Exists(INDEX_FILENAME) \/ ~Exists(METADATA_FILENAME)
       THEN \* "Index files not found"
            /\ ret' = LoadReturn(FALSE, "absent")
            /\ UNCHANGED <<backend, embeddings, faiss_index, metadata>>
       ELSE IF ~Readable(INDEX_FILENAME)
       THEN \* np.load raises
            /\ ret' = LoadReturn(FALSE, "error")
            /\ UNCHANGED <<backend, embeddings, faiss_index, metadata>>
       ELSE IF ~Readable(METADATA_FILENAME)
       THEN \* json.load raises, self.embeddings is already assigned
            /\ embeddings' = NpLoad(files[INDEX_FILENAME].data)
            /\ ret' = LoadReturn(FALSE, "error")
            /\ UNCHANGED <<backend, faiss_index, metadata>>
       ELSE /\ embeddings' = NpLoad(files[INDEX_FILENAME].data)
            /\ metadata' = loadedMeta
            /\ backend' = newBackend
            /\ IF newBackend # "faiss"
               THEN /\ faiss_index' = faiss_index
                    /\ ret' = LoadReturn(TRUE, "")
               ELSE IF Exists(FAISS_INDEX_FILENAME) /\ FAISS_AVAILABLE
               THEN IF Readable(FAISS_INDEX_FILENAME)
                    THEN /\ faiss_index' =
                                ReadIndex(files[FAISS_INDEX_FILENAME].data)
                         /\ ret' = LoadReturn(TRUE, "")
                    ELSE \* faiss.read_index raises
                         /\ faiss_index' = faiss_index
                         /\ ret' = LoadReturn(FALSE, "error")
               ELSE IF FAISS_AVAILABLE
               THEN \* "FAISS index file not found. Rebuilding from embeddings..."
                    /\ faiss_index' =
                           BuildFaissIndex(NpLoad(files[INDEX_FILENAME].data))
                    /\ ret' = LoadReturn(TRUE, "")
               ELSE \* _build_faiss_index raises ImportError
                    /\ faiss_index' = faiss_index
                    /\ ret' = LoadReturn(FALSE, "error")
    /\ UNCHANGED <<callers, FAISS_AVAILABLE, files, saved>>

(***************************************************************************)
(* search                                                                  *)
(***************************************************************************)
\* The orders of the rows 0..n-1.
Perms(n) ==
    {p \in [1..n -> 0..(n - 1)] : \A i, j \in 1..n : p[i] = p[j] => i = j}

\* A result left in argsort's ascending order.
NoReverse(s) == s
\* [::-1]
Reverse(s) == [i \in 1..Len(s) |-> s[Len(s) + 1 - i]]

\* Python's s[:k].
SliceTo(s, k) ==
    IF k >= 0 THEN SubSeq(s, 1, Min(k, Len(s)))
    ELSE SubSeq(s, 1, Max(Len(s) + k, 0))

\* np.dot(self.embeddings, query_embedding.T).flatten()
Similarities(rows, q) == [i \in 1..Len(rows) |-> Dot(rows[i], q)]

\* np.argsort(similarities): an ascending order of the rows.  The default
\* kind is not a stable sort, so equal values come in any order.
Argsort(sims) ==
    {p \in Perms(Len(sims)) :
        \A i, j \in 1..Len(sims) : i < j => sims[p[i] + 1] <= sims[p[j] + 1]}

\* What _search_numpy can do: raise (np.dot on mismatched shapes), or return
\* (indices, scores).
SearchNumpy(m, q, top_k) ==
    LET sims == Similarities(m.rows, q)
        k == Min(top_k, Len(sims))
    IN  IF Len(q) # m.dim THEN {Raised("ValueError")}
        ELSE {[ok |-> TRUE,
               indices |-> SliceTo(Reverse(p), k),
               scores |-> [i \in 1..Len(SliceTo(Reverse(p), k)) |->
                              sims[SliceTo(Reverse(p), k)[i] + 1]]] :
                 p \in Argsort(sims)}

\* A flat index that ranks the rows of least inner product first.
FlatMinSearch(ix, q, k) ==
    LET sims == Similarities(ix.xb, q)
    IN  {[ok |-> TRUE,
          indices |-> SubSeq(p, 1, k),
          scores |-> [i \in 1..k |-> sims[p[i] + 1]]] :
            p \in {r \in Perms(Len(sims)) :
                    \A i, j \in 1..Len(sims) :
                        i < j => sims[r[i] + 1] <= sims[r[j] + 1]}}

\* IndexFlatIP.search(query, k) for k >= 1: the k best rows by inner product,
\* best first; rows of equal score in any order.
FlatIPSearch(ix, q, k) ==
    LET sims == Similarities(ix.xb, q)
    IN  {[ok |-> TRUE,
          indices |-> SubSeq(p, 1, k),
          scores |-> [i \in 1..k |-> sims[p[i] + 1]]] :
            p \in {r \in Perms(Len(sims)) :
                    \A i, j \in 1..Len(sims) :
                        i < j => sims[r[i] + 1] >= sims[r[j] + 1]}}

\* What _search_faiss can do.  faiss refuses a query of another dimension
\* and a negative k; k = 0 it refuses or answers with no rows, depending on
\* its version.
SearchFaiss(ix, q, top_k) ==
    LET k == Min(top_k, Len(ix.xb))
    IN  IF Len(q) # ix.d \/ k < 0 THEN {Raised("AssertionError")}
        ELSE IF k = 0
        THEN {Raised("AssertionError"),
              [ok |-> TRUE, indices |-> <<>>, scores |-> <<>>]}
        ELSE FlatIPSearch(ix, q, k)

\* "Use appropriate backend": the engine search answers with.
ActiveEngine ==
    IF backend = "faiss" /\ faiss_index # None THEN "faiss" ELSE "numpy"

\* What search reports: the query, top_k, the engine and its outcome.
SearchReturn(q, top_k, r) ==
    IF r.ok
    THEN [op |-> "search", ok |-> TRUE, q |-> q, top_k |-> top_k,
          via |-> ActiveEngine, indices |-> r.indices, scores |-> r.scores]
    ELSE [op |-> "search", ok |-> FALSE, q |-> q, top_k |-> top_k,
          error |-> r.error]

\* What search can do on the instance as it is.
SearchOutcomes(q, top_k) ==
    IF embeddings = None THEN {Raised("ValueError")}
    ELSE IF ActiveEngine = "faiss" THEN SearchFaiss(faiss_index, q, top_k)
    ELSE SearchNumpy(embeddings, q, top_k)

Search(q, top_k) ==
    /\ \E r \in SearchOutcomes(q, top_k) : ret' = SearchReturn(q, top_k, r)
    /\ UNCHANGED <<callers, FAISS_AVAILABLE, instance, files, saved>>

(***************************************************************************)
(* get_document_info                                                       *)
(***************************************************************************)
\* Python's list[i]: whether it is in range, and the item it gives.  A
\* negative i counts from the end of the list.
InRange(s, i) == 0 - Len(s) <= i /\ i < Len(s)
PyItem(s, i) == IF i >= 0 THEN s[i + 1] ELSE s[Len(s) + i + 1]

\* The dict get_document_info returns: the text is added when there are
\* texts and index < len(doc_texts).
DocumentInfo(index) ==
    LET result == [doc_id |-> PyItem(metadata.doc_ids, index),
                   language |-> PyItem(metadata.languages, index)]
    IN  IF metadata.doc_texts # <<>> /\ index < Len(metadata.doc_texts)
        THEN [doc_id |-> result.doc_id, language |-> result.language,
              text |-> PyItem(metadata.doc_texts, index)]
        ELSE result

GetDocumentInfo(index) ==
    /\ ret' = IF /\ InRange(metadata.doc_ids, index)
                 /\ InRange(metadata.languages, index)
                 /\ (metadata.doc_texts # <<>> /\ index < Len(metadata.doc_texts))
                        => InRange(metadata.doc_texts, index)
              THEN [op |-> "info", ok |-> TRUE, index |-> index,
                    result |-> DocumentInfo(index)]
              ELSE [op |-> "info", ok |-> FALSE, index |-> index,
                    error |-> "IndexError"]
    /\ UNCHANGED <<callers, FAISS_AVAILABLE, instance, files, saved>>

(***************************************************************************)
(* index_exists                                                            *)
(***************************************************************************)
\* An index_exists that puts an empty embeddings file in place when it finds
\* none.
IndexExistsTouching ==
    /\ ret' = [op |-> "exists",
               result |-> Exists(INDEX_FILENAME) /\ Exists(METADATA_FILENAME)]
    /\ files' = [files EXCEPT ![INDEX_FILENAME] =
                    IF @ = Absent THEN Truncated ELSE @]
    /\ UNCHANGED <<callers, FAISS_AVAILABLE, instance, saved>>

\* index_exists(): whether the embeddings and the metadata files exist.
IndexExists ==
    /\ ret' = [op |-> "exists",
               result |-> Exists(INDEX_FILENAME) /\ Exists(METADATA_FILENAME)]
    /\ UNCHANGED <<callers, FAISS_AVAILABLE, instance, files, saved>>

(***************************************************************************)
(* CrossLingualRetriever (retriever.py), on the instance as its index.     *)
(***************************************************************************)
\* CrossLingualRetriever(embedder, index): self.corpus_texts = None.
NewRetriever ==
    /\ corpus_texts' = None
    /\ ret' = [op |-> "retriever"]
    /\ UNCHANGED <<writer, reader, FAISS_AVAILABLE, instance, files, saved>>

\* set_corpus_texts(corpus_texts)
SetCorpusTexts(table) ==
    /\ corpus_texts' = table
    /\ ret' = [op |-> "set_corpus_texts"]
    /\ UNCHANGED <<writer, reader, FAISS_AVAILABLE, instance, files, saved>>

\* LANG_CODE_MAP.get(doc_id.split('#')[0], language): a document id is the
\* pair of its language code and its number.
LanguageName(doc_id, language) ==
    IF doc_id[1] = "hi" THEN "Hindi"
    ELSE IF doc_id[1] = "bn" THEN "Bengali"
    ELSE IF doc_id[1] = "te" THEN "Telugu"
    ELSE language

\* Whether the body of retrieve's loop raises for row idx: in
\* get_document_info, or in self.corpus_texts[idx].
FormatRaises(idx, return_full_text) ==
    \/ ~InRange(metadata.doc_ids, idx)
    \/ ~InRange(metadata.languages, idx)
    \/ /\ metadata.doc_texts # <<>>
       /\ idx < Len(metadata.doc_texts)
       /\ ~InRange(metadata.doc_texts, idx)
    \/ /\ return_full_text
       /\ corpus_texts # None
       /\ ~InRange(corpus_texts.list, idx)

\* The same result, with the text whenever return_full_text is set and the
\* table has an entry for the row.
FormatResultDefaultingText(rank, idx, score, return_full_text) ==
    LET doc_info == DocumentInfo(idx)
        result == [rank |-> rank, doc_id |-> doc_info.doc_id,
                   language |-> LanguageName(doc_info.doc_id,
                                             doc_info.language),
                   score |-> score]
    IN  IF return_full_text
        THEN [rank |-> result.rank, doc_id |-> result.doc_id,
              language |-> result.language, score |-> result.score,
              text |-> IF corpus_texts # None
                       THEN PyItem(corpus_texts.list, idx) ELSE 0]
        ELSE result

\* The result dict of retrieve for the rank-th returned row idx.
FormatResult(rank, idx, score, return_full_text) ==
    LET doc_info == DocumentInfo(idx)
        result == [rank |-> rank, doc_id |-> doc_info.doc_id,
                   language |-> LanguageName(doc_info.doc_id,
                                             doc_info.language),
                   score |-> score]
    IN  IF return_full_text /\ corpus_texts # None
        THEN [rank |-> result.rank, doc_id |-> result.doc_id,
              language |-> result.language, score |-> result.score,
              text |-> PyItem(corpus_texts.list, idx)]
        ELSE result

\* What retrieve returns or raises once search has returned r.
RetrieveReturn(q, top_k, return_full_text, r) ==
    IF ~r.ok
    THEN [op |-> "retrieve", ok |-> FALSE, q |-> q, top_k |-> top_k,
          return_full_text |-> return_full_text, error |-> r.error]
    ELSE IF \E i \in 1..Len(r.indices) :
                FormatRaises(r.indices[i], return_full_text)
    THEN [op |-> "retrieve", ok |-> FALSE, q |-> q, top_k |-> top_k,
          return_full_text |-> return_full_text, error |-> "IndexError"]
    ELSE [op |-> "retrieve", ok |-> TRUE, q |-> q, top_k |-> top_k,
          return_full_text |-> return_full_text, indices |-> r.indices,
          results |-> [i \in 1..Len(r.indices) |->
                          FormatResult(i, r.indices[i], r.scores[i],
                                       return_full_text)]]

\* retrieve(query, top_k, return_full_text), q being the query's embedding.
Retrieve(q, top_k, return_full_text) ==
    /\ \E r \in SearchOutcomes(q, top_k) :
          ret' = RetrieveReturn(q, top_k, return_full_text, r)
    /\ UNCHANGED <<callers, FAISS_AVAILABLE, instance, files, saved>>

(***************************************************************************)
(* build, load and retrieve as threads run them: one statement at a time.  *)
(* Nothing in indexer.py or retriever.py takes a lock, so a step of one    *)
(* call can come between two steps of another.                             *)
(***************************************************************************)
\* No call is in progress.
Quiet == writer = None /\ reader = None

\* build up to its assertions: it raises, or goes on to its assignments.
BuildBegin(e, doc_ids, languages, doc_texts) ==
    /\ writer = None
    /\ IF ~ShapesAgree(e, doc_ids, languages, doc_texts)
       THEN /\ ret' = BuildReturn(Raised("AssertionError"),
                                  e, doc_ids, languages, doc_texts)
            /\ UNCHANGED writer
       ELSE /\ writer' = [op |-> "build", pc |-> "embeddings", e |-> e,
                          doc_ids |-> doc_ids, languages |-> languages,
                          doc_texts |-> doc_texts]
            /\ UNCHANGED ret
    /\ UNCHANGED <<corpus_texts, reader, FAISS_AVAILABLE, instance, files,
                   saved>>

\* self.embeddings = embeddings
BuildEmbeddings ==
    /\ writer # None
    /\ writer.op = "build"
    /\ writer.pc = "embeddings"
    /\ embeddings' = writer.e
    /\ writer' = [writer EXCEPT !.pc = "native"]
    /\ UNCHANGED <<corpus_texts, reader, FAISS_AVAILABLE, backend,
                   faiss_index, metadata, files, ret, saved>>

\* if self.backend == 'faiss': self._build_faiss_index(embeddings)
BuildNative ==
    /\ writer # None
    /\ writer.op = "build"
    /\ writer.pc = "native"
    /\ IF backend = "faiss" /\ ~FAISS_AVAILABLE
       THEN /\ ret' = BuildReturn(Raised("ImportError"), writer.e,
                                  writer.doc_ids, writer.languages,
                                  writer.doc_texts)
            /\ writer' = None
            /\ UNCHANGED faiss_index
       ELSE /\ faiss_index' = IF backend = "faiss"
                              THEN BuildFaissIndex(writer.e)
                              ELSE faiss_index
            /\ writer' = [writer EXCEPT !.pc = "metadata"]
            /\ UNCHANGED ret
    /\ UNCHANGED <<corpus_texts, reader, FAISS_AVAILABLE, backend, embeddings,
                   metadata, files, saved>>

\* self.metadata = {...}, and build returns.
BuildMetadata ==
    /\ writer # None
    /\ writer.op = "build"
    /\ writer.pc = "metadata"
    /\ metadata' = BuiltMetadata(writer.e, writer.doc_ids, writer.languages,
                                 writer.doc_texts)
    /\ ret' = BuildReturn(Completed, writer.e, writer.doc_ids,
                          writer.languages, writer.doc_texts)
    /\ writer' = None
    /\ UNCHANGED <<corpus_texts, reader, FAISS_AVAILABLE, backend, embeddings,
                   faiss_index, files, saved>>

\* load up to its check that the files exist.
LoadBegin ==
    /\ writer = None
    /\ IF ~Exists(INDEX_FILENAME) \/ ~Exists(METADATA_FILENAME)
       THEN /\ ret' = LoadReturn(FALSE, "absent")
            /\ UNCHANGED writer
       ELSE /\ writer' = [op |-> "load", pc |-> "embeddings"]
            /\ UNCHANGED ret
    /\ UNCHANGED <<corpus_texts, reader, FAISS_AVAILABLE, instance, files,
                   saved>>

\* data = np.load(embeddings_path); self.embeddings = data['embeddings']
LoadEmbeddings ==
    /\ writer # None
    /\ writer.op = "load"
    /\ writer.pc = "embeddings"
    /\ IF ~Readable(INDEX_FILENAME)
       THEN /\ ret' = LoadReturn(FALSE, "error")
            /\ writer' = None
            /\ UNCHANGED embeddings
       ELSE /\ embeddings' = NpLoad(files[INDEX_FILENAME].data)
            /\ writer' = [writer EXCEPT !.pc = "metadata"]
            /\ UNCHANGED ret
    /\ UNCHANGED <<corpus_texts, reader, FAISS_AVAILABLE, backend,
                   faiss_index, metadata, files, saved>>

\* self.metadata = json.load(f), and the switch to the backend it records.
LoadMetadata ==
    /\ writer # None
    /\ writer.op = "load"
    /\ writer.pc = "metadata"
    /\ IF ~Readable(METADATA_FILENAME)
       THEN /\ ret' = LoadReturn(FALSE, "error")
            /\ writer' = None
            /\ UNCHANGED <<backend, metadata>>
       ELSE /\ metadata' = JsonLoad(files[METADATA_FILENAME].data)
            /\ backend' =
                  ResolveBackend(JsonLoad(files[METADATA_FILENAME].data))
            /\ writer' = [writer EXCEPT !.pc = "native"]
            /\ UNCHANGED ret
    /\ UNCHANGED <<corpus_texts, reader, FAISS_AVAILABLE, embeddings,
                   faiss_index, files, saved>>

\* if self.backend == 'faiss': read the native artifact or rebuild it; and
\* load returns.
LoadNative ==
    /\ writer # None
    /\ writer.op = "load"
    /\ writer.pc = "native"
    /\ IF backend # "faiss"
       THEN /\ ret' = LoadReturn(TRUE, "")
            /\ UNCHANGED faiss_index
       ELSE IF Exists(FAISS_INDEX_FILENAME) /\ FAISS_AVAILABLE
       THEN IF Readable(FAISS_INDEX_FILENAME)
            THEN /\ faiss_index' = ReadIndex(files[FAISS_INDEX_FILENAME].data)
                 /\ ret' = LoadReturn(TRUE, "")
            ELSE /\ ret' = LoadReturn(FALSE, "error")
                 /\ UNCHANGED faiss_index
       ELSE IF FAISS_AVAILABLE
       THEN /\ faiss_index' = BuildFaissIndex(embeddings)
            /\ ret' = LoadReturn(TRUE, "")
       ELSE /\ ret' = LoadReturn(FALSE, "error")
            /\ UNCHANGED faiss_index
    /\ writer' = None
    /\ UNCHANGED <<corpus_texts, reader, FAISS_AVAILABLE, backend, embeddings,
                   metadata, files, saved>>

\* The array search ranks: the native structure's rows or the embeddings.
RowsSearched ==
    IF ActiveEngine = "faiss" THEN faiss_index.xb ELSE embeddings.rows

\* retrieve up to the return of self.index.search: it raises, or holds the
\* indices and scores (and, for the record, the array they were ranked in).
RetrieveSearch(q, top_k) ==
    /\ reader = None
    /\ \E r \in SearchOutcomes(q, top_k) :
          IF r.ok
          THEN /\ reader' = [q |-> q, top_k |-> top_k, indices |-> r.indices,
                             scores |-> r.scores, searched |-> RowsSearched]
               /\ UNCHANGED ret
          ELSE /\ ret' = RetrieveReturn(q, top_k, FALSE, r)
               /\ UNCHANGED reader
    /\ UNCHANGED <<corpus_texts, writer, FAISS_AVAILABLE, instance, files,
                   saved>>

\* retrieve's loop over the indices it holds, and its return.
RetrieveFormat ==
    /\ reader # None
    /\ ret' = [searched |-> reader.searched] @@
              RetrieveReturn(reader.q, reader.top_k, FALSE,
                             [ok |-> TRUE, indices |-> reader.indices,
                              scores |-> reader.scores])
    /\ reader' = None
    /\ UNCHANGED <<corpus_texts, writer, FAISS_AVAILABLE, instance, files,
                   saved>>

(***************************************************************************)
(* The VectorIndex of core/indexer.py, sharing the index directory.        *)
(***************************************************************************)
\* The metadata its build keeps: no 'backend' item.
CoreBuiltMetadata(e, doc_ids, languages, doc_texts) ==
    [doc_ids |-> doc_ids, languages |-> languages,
     doc_texts |-> IF doc_texts # None THEN doc_texts.list ELSE <<>>,
     num_documents |-> Len(doc_ids), embedding_dim |-> e.dim]

\* Another program's core VectorIndex, on the same directory, builds from
\* these arguments and saves: it writes the embeddings and the metadata
\* artifact and touches no other file.
CoreSave(e, doc_ids, languages, doc_texts) ==
    /\ ShapesAgree(e, doc_ids, languages, doc_texts)
    /\ files' = [a \in Artifacts |->
                    IF a = INDEX_FILENAME THEN Whole(Savez(e))
                    ELSE IF a = METADATA_FILENAME
                    THEN Whole(JsonDump(CoreBuiltMetadata(e, doc_ids,
                                                          languages,
                                                          doc_texts)))
                    ELSE files[a]]
    /\ ret' = [op |-> "core_save", ok |-> TRUE]
    /\ saved' = [embeddings |-> e,
                 metadata |-> CoreBuiltMetadata(e, doc_ids, languages,
                                                doc_texts)]
    /\ UNCHANGED <<callers, FAISS_AVAILABLE, instance>>

(***************************************************************************)
(* The build command (main.py build_index).                                *)
(***************************************************************************)
\* A test that skips the rebuild when it is forced.
SkipsRebuildWhenForced(force_rebuild) ==
    /\ Exists(INDEX_FILENAME)
    /\ Exists(METADATA_FILENAME)
    /\ force_rebuild

\* if index.index_exists() and not force_rebuild
SkipsRebuild(force_rebuild) ==
    /\ Exists(INDEX_FILENAME)
    /\ Exists(METADATA_FILENAME)
    /\ ~force_rebuild

\* What the command reports: whether it returned, and whether it went as
\* far as loading the corpus.
CommandReturn(force_rebuild, b, r, corpus_loaded) ==
    [op |-> "build_index", force_rebuild |-> force_rebuild, backend |-> b,
     ok |-> r.ok, error |-> r.error, corpus_loaded |-> corpus_loaded]

\* build_index(force_rebuild=..., backend=b), run to its end in a process
\* of its own, where the corpus and its embeddings are e, doc_ids,
\* languages and doc_texts: it constructs a VectorIndex, returns if the index
\* exists and no rebuild is forced, and otherwise loads the corpus, encodes
\* it, builds and saves.
BuildCommand(force_rebuild, b, e, doc_ids, languages, doc_texts) ==
    LET built == [BuiltMetadata(e, doc_ids, languages, doc_texts)
                     EXCEPT !.backend = b]
    IN
    /\ IF b = "faiss" /\ ~FAISS_AVAILABLE
       THEN \* VectorIndex(backend='faiss') raises
            /\ ret' = CommandReturn(force_rebuild, b, Raised("ImportError"),
                                    FALSE)
            /\ UNCHANGED <<instance, files, saved>>
       ELSE IF SkipsRebuild(force_rebuild)
       THEN \* "Index already exists. Use --force-rebuild to rebuild."
            /\ backend' = b
            /\ embeddings' = None
            /\ faiss_index' = None
            /\ metadata' = EmptyMetadata(b)
            /\ ret' = CommandReturn(force_rebuild, b, Completed, FALSE)
            /\ UNCHANGED <<files, saved>>
       ELSE /\ backend' = b
            /\ embeddings' = e
            /\ faiss_index' = IF b = "faiss" THEN BuildFaissIndex(e) ELSE None
            /\ metadata' = built
            /\ files' = [a \in Artifacts |->
                            IF a = INDEX_FILENAME THEN Whole(Savez(e))
                            ELSE IF a = METADATA_FILENAME
                            THEN Whole(JsonDump(built))
                            ELSE IF b = "faiss"
                            THEN Whole(WriteIndex(BuildFaissIndex(e)))
                            ELSE files[a]]
            /\ saved' = [embeddings |-> e, metadata |-> built]
            /\ ret' = CommandReturn(force_rebuild, b, Completed, TRUE)
    /\ UNCHANGED <<callers, FAISS_AVAILABLE>>

(***************************************************************************)
(* The metrics of evaluator.py.                                            *)
(***************************************************************************)
\* A float, kept exact as a fraction of integers in lowest terms, so that
\* equal values are equal fractions; 0.0; and the sum of two values.
RECURSIVE Gcd(_, _)
Gcd(a, b) == IF b = 0 THEN a ELSE Gcd(b, a % b)
Frac(num, den) ==
    [num |-> num \div Gcd(num, den), den |-> den \div Gcd(num, den)]
Zero == Frac(0, 1)
RatAdd(a, b) == Frac(a.num * b.den + b.num * a.den, a.den * b.den)

\* set(list)
ToSet(s) == {s[i] : i \in 1..Len(s)}

\* f[1] + ... + f[n]
RECURSIVE SumOver(_, _)
SumOver(f, n) == IF n <= 0 THEN 0 ELSE f[n] + SumOver(f, n - 1)

\* 1.0 / np.log2(i + 1) for rank i = 1, 2, ..., in hundredths: what matters
\* of these values is their order and that the first is twice the third.
Discounts == <<100, 63, 50, 43, 39, 36>>
Discount(i) == Discounts[i]

\* A recall that divides by the length of the list of relevant ids.
RecallOverList(retrieved_doc_ids, relevant_doc_ids, k) ==
    IF Len(relevant_doc_ids) = 0 THEN Zero
    ELSE Frac(Cardinality(ToSet(SliceTo(retrieved_doc_ids, k))
                            \cap ToSet(relevant_doc_ids)),
              Len(relevant_doc_ids))
calculate_recall_at_k(retrieved_doc_ids, relevant_doc_ids, k) ==
    IF Len(relevant_doc_ids) = 0 THEN Zero
    ELSE LET retrieved_k == ToSet(SliceTo(retrieved_doc_ids, k))
             relevant_set == ToSet(relevant_doc_ids)
             num_relevant_retrieved == Cardinality(retrieved_k \cap relevant_set)
         IN  Frac(num_relevant_retrieved, Cardinality(relevant_set))

calculate_ndcg_at_k(retrieved_doc_ids, relevant_doc_ids, k) ==
    IF Len(relevant_doc_ids) = 0 THEN Zero
    ELSE LET relevant_set == ToSet(relevant_doc_ids)
             top == SliceTo(retrieved_doc_ids, k)
             dcg == SumOver([i \in 1..Len(top) |->
                                IF top[i] \in relevant_set THEN Discount(i)
                                ELSE 0], Len(top))
             \* range(min(k, len(relevant_doc_ids))) is empty for k <= 0
             ideal == Min(k, Len(relevant_doc_ids))
             idcg == SumOver([i \in 1..ideal |-> Discount(i)], ideal)
         IN  IF idcg = 0 THEN Zero ELSE Frac(dcg, idcg)

\* The calls of the two metrics: ret keeps the arguments and the value.
RecallAtK(retrieved_doc_ids, relevant_doc_ids, k) ==
    /\ ret' = [op |-> "recall", retrieved |-> retrieved_doc_ids,
               relevant |-> relevant_doc_ids, k |-> k,
               value |-> calculate_recall_at_k(retrieved_doc_ids,
                                               relevant_doc_ids, k)]
    /\ UNCHANGED <<callers, FAISS_AVAILABLE, instance, files, saved>>

NdcgAtK(retrieved_doc_ids, relevant_doc_ids, k) ==
    /\ ret' = [op |-> "ndcg", retrieved |-> retrieved_doc_ids,
               relevant |-> relevant_doc_ids, k |-> k,
               value |-> calculate_ndcg_at_k(retrieved_doc_ids,
                                             relevant_doc_ids, k)]
    /\ UNCHANGED <<callers, FAISS_AVAILABLE, instance, files, saved>>

(***************************************************************************)
(* evaluate_language                                                       *)
(***************************************************************************)
\* The defaults of ndcg_k and recall_k.
NDCG_K == 10
RECALL_K == 100

\* What retriever.retrieve can do for a query: raise, or return results,
\* of which the evaluator reads the doc_ids.
Retrieved(doc_ids) == [ok |-> TRUE, doc_ids |-> doc_ids]

\* A handler that lets every error pass.
CatchesNothing(error) == FALSE
\* except Exception: the errors the loop body's handler catches.
Catches(error) == error \in {"ValueError", "IndexError", "RuntimeError"}

\* The lists of the loop and the calls of retrieve it has made; raised is
\* the failed call whose error left the loop.
LoopStart ==
    [ndcg_scores |-> <<>>, recall_scores |-> <<>>, queries_evaluated |-> 0,
     calls |-> <<>>, raised |-> None]

\* A loop body that scores a failed query as zero.
EvaluateQueryScoringFailures(st, query_id, qrels, retriever) ==
    IF query_id \notin DOMAIN qrels THEN st
    ELSE LET relevant_docs == qrels[query_id]
             results == retriever[query_id]
             called == Append(st.calls, query_id)
             docs == IF results.ok THEN results.doc_ids ELSE <<>>
         IN  [ndcg_scores |->
                  Append(st.ndcg_scores,
                         calculate_ndcg_at_k(docs, relevant_docs, NDCG_K)),
              recall_scores |->
                  Append(st.recall_scores,
                         calculate_recall_at_k(docs, relevant_docs, RECALL_K)),
              queries_evaluated |-> st.queries_evaluated + 1,
              calls |-> called, raised |-> None]
\* The body of the loop over the queries, for one query.
EvaluateQuery(st, query_id, qrels, retriever) ==
    IF query_id \notin DOMAIN qrels THEN st
    ELSE LET relevant_docs == qrels[query_id]
             results == retriever[query_id]
             called == Append(st.calls, query_id)
         IN  IF ~results.ok
             THEN IF Catches(results.error)
                  THEN [st EXCEPT !.calls = called]
                  ELSE [st EXCEPT !.calls = called, !.raised = results]
             ELSE [ndcg_scores |->
                       Append(st.ndcg_scores,
                              calculate_ndcg_at_k(results.doc_ids,
                                                  relevant_docs, NDCG_K)),
                   recall_scores |->
                       Append(st.recall_scores,
                              calculate_recall_at_k(results.doc_ids,
                                                    relevant_docs, RECALL_K)),
                   queries_evaluated |-> st.queries_evaluated + 1,
                   calls |-> called, raised |-> None]

\* for query_id, query_text in queries
RECURSIVE EvaluateQueries(_, _, _, _)
EvaluateQueries(st, queries, qrels, retriever) ==
    IF queries = <<>> \/ st.raised # None THEN st
    ELSE EvaluateQueries(EvaluateQuery(st, Head(queries), qrels, retriever),
                         Tail(queries), qrels, retriever)

\* np.mean
RECURSIVE RatSum(_)
RatSum(scores) ==
    IF scores = <<>> THEN Zero ELSE RatAdd(Head(scores), RatSum(Tail(scores)))
Mean(scores) ==
    Frac(RatSum(scores).num, RatSum(scores).den * Len(scores))

\* The dict evaluate_language returns.
Report(st) ==
    IF Len(st.ndcg_scores) = 0
    THEN [ndcg |-> Zero, recall |-> Zero, num_queries |-> 0]
    ELSE [ndcg |-> Mean(st.ndcg_scores), recall |-> Mean(st.recall_scores),
          num_queries |-> st.queries_evaluated]

\* No limit, whatever max_queries is.
LimitIgnored(queries, max_queries) == queries

\* queries[:max_queries] when max_queries is given.
Limit(queries, max_queries) ==
    IF max_queries # None THEN SliceTo(queries, max_queries.int) ELSE queries

\* evaluate_language on the queries and qrels load_evaluation_data returned,
\* with a retriever that answers query q with retriever[q].
EvaluateLanguage(queries, qrels, retriever, max_queries) ==
    LET st == EvaluateQueries(LoopStart, Limit(queries, max_queries),
                              qrels, retriever)
    IN
    /\ ret' = [op |-> "evaluate", queries |-> queries, qrels |-> qrels,
               retriever |-> retriever, max_queries |-> max_queries,
               calls |-> st.calls, ok |-> st.raised = None,
               report |-> IF st.raised = None THEN Report(st) ELSE None]
    /\ UNCHANGED <<callers, FAISS_AVAILABLE, instance, files, saved>>

(***************************************************************************)
(* evaluate_all_languages (evaluator.py).                                  *)
(***************************************************************************)
\* d[key] = value on a dict.
DictSet(d, key, value) ==
    [x \in DOMAIN d \cup {key} |-> IF x = key THEN value ELSE d[x]]

\* The entry the except clause records for a language.
ErrorEntry(error) ==
    [ndcg |-> Zero, recall |-> Zero, num_queries |-> 0, error |-> error]

\* Before the loop: all_results = {}.
AllStart == [results |-> <<>>, evaluated |-> <<>>, raised |-> None]

\* The same loop body with no except clause.
EvaluateOneLanguageUnguarded(st, language, outcome) ==
    IF st.raised # None THEN st
    ELSE IF outcome.ok
         THEN [st EXCEPT !.results = DictSet(@, language, outcome.report),
                         !.evaluated = Append(@, language)]
         ELSE [st EXCEPT !.evaluated = Append(@, language),
                         !.raised = outcome]

\* One iteration of the loop over self.languages: outcome is what
\* evaluate_language did for the language.
EvaluateOneLanguage(st, language, outcome) ==
    IF st.raised # None THEN st
    ELSE IF outcome.ok
         THEN [st EXCEPT !.results = DictSet(@, language, outcome.report),
                         !.evaluated = Append(@, language)]
         ELSE IF Catches(outcome.error)
              THEN [st EXCEPT
                       !.results = DictSet(@, language,
                                           ErrorEntry(outcome.error)),
                       !.evaluated = Append(@, language)]
              ELSE [st EXCEPT !.evaluated = Append(@, language),
                              !.raised = outcome]

\* The loop over self.languages.
RECURSIVE EvaluateLanguages(_, _, _)
EvaluateLanguages(st, languages, outcomes) ==
    IF languages = <<>> THEN st
    ELSE EvaluateLanguages(
             EvaluateOneLanguage(st, Head(languages), outcomes[Head(languages)]),
             Tail(languages), outcomes)

\* evaluate_all_languages of an evaluator constructed with these languages,
\* where evaluate_language does outcomes[l] for language l.
EvaluateAllLanguages(languages, outcomes) ==
    LET st == EvaluateLanguages(AllStart, languages, outcomes)
    IN
    /\ ret' = [op |-> "evaluate_all", languages |-> languages,
               outcomes |-> outcomes, evaluated |-> st.evaluated,
               ok |-> st.raised = None,
               results |-> IF st.raised = None THEN st.results ELSE <<>>]
    /\ UNCHANGED <<callers, FAISS_AVAILABLE, instance, files, saved>>

(***************************************************************************)
(* The system.                                                             *)
(***************************************************************************)
Init ==
    /\ FAISS_AVAILABLE \in BOOLEAN
    /\ backend = "numpy"
    /\ embeddings = None
    /\ faiss_index = None
    /\ metadata = EmptyMetadata("numpy")
    /\ files = [a \in Artifacts |-> Absent]
    /\ ret = [op |-> "init"]
    /\ saved = None
    /\ corpus_texts = None
    /\ writer = None
    /\ reader = None

\* The inputs of build: every combination of a matrix, an id list, a language
\* list and a text list, of agreeing lengths or not.
BuildInputs == Matrices \X DocIdLists \X LanguageLists \X TextLists

\* The persistence runs build from one corpus, whose document i has the
\* vector CorpusVector(i): its first n documents.
CorpusVector(i) == IF i % 2 = 1 THEN <<1>> ELSE <<0 - 1>>
StoreMatrices ==
    {[dim |-> 1, rows |-> [i \in 1..n |-> CorpusVector(i)]] : n \in 0..MaxDocs}
\* How many of doc_ids, languages and doc_texts differ in length from the
\* matrix.
Mismatches(x) ==
    (IF Len(x[2]) # Len(x[1].rows) THEN 1 ELSE 0)
    + (IF Len(x[3]) # Len(x[1].rows) THEN 1 ELSE 0)
    + (IF x[4] # None /\ Len(x[4].list) # Len(x[1].rows) THEN 1 ELSE 0)
\* Their inputs of build: arguments of agreeing lengths, and a matrix of
\* MaxDocs rows with one list that misses its last entry.
StoreBuildInputs ==
    {x \in StoreMatrices \X DocIdLists \X LanguageLists \X TextLists :
        \/ Mismatches(x) = 0
        \/ /\ Mismatches(x) = 1
           /\ Len(x[1].rows) = MaxDocs
           /\ Len(x[2]) >= MaxDocs - 1
           /\ Len(x[3]) >= MaxDocs - 1
           /\ x[4] # None => Len(x[4].list) >= MaxDocs - 1}
StoreQueries == {<<1>>}
StoreTopKs == {1, MaxDocs + 1}

\* build, save, load and search on one directory, with the process dying inside save.
Next ==
    \/ \E b \in Backends : NewInstance(b)
    \/ \E x \in StoreBuildInputs : Build(x[1], x[2], x[3], x[4])
    \/ Save
    \/ \E n \in 0..2, open \in BOOLEAN, b \in Backends : SaveCrash(n, open, b)
    \/ Load
    \/ \E q \in StoreQueries, top_k \in StoreTopKs : Search(q, top_k)

\* build and search in memory, over every matrix, query and top_k.
NextSearch ==
    \/ \E b \in Backends : NewInstance(b)
    \/ \E x \in BuildInputs : Build(x[1], x[2], x[3], x[4])
    \/ \E q \in Queries, top_k \in TopKs : Search(q, top_k)

\* The row indices get_document_info is asked for: in range, at and past
\* the end, and below 0.
RowIndices == (0 - MaxDocs - 1)..MaxDocs

\* build and get_document_info in memory, over every build of agreeing
\* counts and every row index.
NextInfo ==
    \/ \E b \in Backends : NewInstance(b)
    \/ \E x \in {y \in BuildInputs : Mismatches(y) = 0} :
          Build(x[1], x[2], x[3], x[4])
    \/ \E index \in RowIndices : GetDocumentInfo(index)

\* The inputs of the metrics: lists over the document ids, with repeats, and
\* the cutoffs k.
EvalIds == {<<"hi", i>> : i \in 1..MaxDocs}
IdLists == SeqsUpTo(EvalIds, MaxDocs)
Cutoffs == (0 - 1)..(MaxDocs + 1)

\* The inputs of evaluate_language: the first n queries of a dataset, whose
\* ids are 1, 2, ...; relevance judgments for some of them (a query's list
\* is never empty); what the retriever does for each query; max_queries.
QueryIds == 1..MaxQueries
QueryLists == {[i \in 1..n |-> i] : n \in 0..MaxQueries}
RelevantChoices == {<<<<"hi", 1>>>>, <<<<"hi", 1>>, <<"hi", 2>>>>}
QrelsChoices == UNION {[S -> RelevantChoices] : S \in SUBSET QueryIds}
RetrieveOutcomes ==
    {Raised("ValueError"), Retrieved(<<<<"hi", 1>>>>),
     Retrieved(<<<<"hi", 2>>, <<"hi", 1>>>>)}
Retrievers == [QueryIds -> RetrieveOutcomes]
MaxQueriesChoices == {None} \cup {[int |-> n] : n \in (0 - 1)..MaxQueries}

\* The inputs of evaluate_all_languages: the languages the evaluator was
\* constructed with, in any order and with repeats, and what
\* evaluate_language does for each: it raises, or it returns a report.
LanguageCodes ==
    {<<"hindi", "bengali", "telugu", "swahili">>[i] : i \in 1..MaxLanguages}
ConfiguredLanguages == SeqsUpTo(LanguageCodes, MaxLanguages) \ {<<>>}
LanguageOutcomes ==
    {Raised("RuntimeError"), Raised("ValueError"),
     [ok |-> TRUE,
      report |-> [ndcg |-> Zero, recall |-> Zero, num_queries |-> 0]],
     [ok |-> TRUE,
      report |-> [ndcg |-> Frac(1, 2), recall |-> Frac(1, 1),
                  num_queries |-> 1]]}

\* The metrics and evaluate_language keep nothing between two calls, so each
\* call is made in a process of its own.
FirstCall == ret.op = "init"

\* The metrics and evaluate_language, over these inputs.
NextEval ==
    \/ /\ FirstCall
       /\ \E r \in IdLists, rel \in IdLists, k \in Cutoffs : RecallAtK(r, rel, k)
    \/ /\ FirstCall
       /\ \E r \in IdLists, rel \in IdLists, k \in Cutoffs : NdcgAtK(r, rel, k)
    \/ /\ FirstCall
       /\ \E q \in QueryLists, j \in QrelsChoices, r \in Retrievers,
             m \in MaxQueriesChoices : EvaluateLanguage(q, j, r, m)
    \/ /\ FirstCall
       /\ \E l \in ConfiguredLanguages, o \in [LanguageCodes -> LanguageOutcomes] :
             EvaluateAllLanguages(l, o)

\* The inputs of the retriever runs: builds of agreeing counts from the
\* corpus's first documents, ids ascending, with or without texts; a text
\* table for the whole corpus and one that misses its last entry, whose
\* entry i is not the text the index stores for document i; the corpus's
\* query.
RetrieveBuildInputs ==
    {x \in StoreBuildInputs :
        /\ Mismatches(x) = 0
        /\ x[2] = IdsAsc(Len(x[2]))
        /\ Len(x[2]) >= MaxDocs - 1}
CorpusTextTables ==
    {[list |-> [i \in 1..n |-> MaxDocs + i]] : n \in (MaxDocs - 1)..MaxDocs}
RetrieveTopKs == {1, MaxDocs}

\* A retriever on an index that is built, saved and loaded, with the
\* read-only calls on the index.
NextRetrieve ==
    \/ \E b \in Backends : NewInstance(b)
    \/ \E x \in RetrieveBuildInputs : Build(x[1], x[2], x[3], x[4])
    \/ Save
    \/ Load
    \/ NewRetriever
    \/ \E table \in CorpusTextTables : SetCorpusTexts(table)
    \/ \E q \in StoreQueries, top_k \in RetrieveTopKs,
          return_full_text \in BOOLEAN : Retrieve(q, top_k, return_full_text)
    \/ \E q \in StoreQueries, top_k \in RetrieveTopKs : Search(q, top_k)
    \/ \E index \in 0..(MaxDocs - 1) : GetDocumentInfo(index)
    \/ IndexExists

\* The builds of the threaded runs: the corpus's first n documents in
\* ascending or descending order, each row being its document's vector.
ThreadBuildInputs ==
    {<<[dim |-> 1, rows |-> [i \in 1..Len(ids) |-> CorpusVector(ids[i][2])]],
       ids, [i \in 1..Len(ids) |-> "hindi"], None>> :
        ids \in {IdsAsc(n) : n \in 1..MaxDocs}
                  \cup {IdsDesc(n) : n \in 1..MaxDocs}}

\* One thread builds and loads, a second one retrieves; instances are
\* constructed and saved while no call is in progress.
NextThreads ==
    \/ /\ Quiet
       /\ \E b \in Backends : NewInstance(b)
    \/ /\ Quiet
       /\ Save
    \/ \E x \in ThreadBuildInputs : BuildBegin(x[1], x[2], x[3], x[4])
    \/ BuildEmbeddings
    \/ BuildNative
    \/ BuildMetadata
    \/ LoadBegin
    \/ LoadEmbeddings
    \/ LoadMetadata
    \/ LoadNative
    \/ \E q \in StoreQueries : RetrieveSearch(q, MaxDocs)
    \/ RetrieveFormat

\* VectorIndex instances of either backend and core instances save into one
\* directory, every save running to its end, and instances load from it.
NextShared ==
    \/ \E b \in Backends : NewInstance(b)
    \/ \E x \in RetrieveBuildInputs : Build(x[1], x[2], x[3], x[4])
    \/ Save
    \/ \E x \in RetrieveBuildInputs : CoreSave(x[1], x[2], x[3], x[4])
    \/ Load

\* The corpora of the build command: the corpus's first documents with
\* their texts.
CommandCorpora ==
    {x \in StoreBuildInputs :
        /\ Mismatches(x) = 0
        /\ x[2] = IdsAsc(Len(x[2]))
        /\ Len(x[2]) >= 1
        /\ x[4] # None}

\* Runs of the build command on one directory, some of them killed inside
\* save.
NextCommand ==
    \/ \E force_rebuild \in BOOLEAN, b \in Backends, x \in CommandCorpora :
          BuildCommand(force_rebuild, b, x[1], x[2], x[3], x[4])
    \/ \E n \in 0..2, open \in BOOLEAN, b \in Backends : SaveCrash(n, open, b)

Spec == Init /\ [][Next]_vars
SpecEval == Init /\ [][NextEval]_vars
SpecSearch == Init /\ [][NextSearch]_vars
SpecInfo == Init /\ [][NextInfo]_vars
SpecRetrieve == Init /\ [][NextRetrieve]_vars
SpecThreads == Init /\ [][NextThreads]_vars
SpecShared == Init /\ [][NextShared]_vars
SpecCommand == Init /\ [][NextCommand]_vars

(***************************************************************************)
(* Properties of search (SpecSearch).                                      *)
(***************************************************************************)
\* The rows a result lists.
Returned(indices) == {indices[i] : i \in 1..Len(indices)}

\* The last call was a search that returned, answered by engine.
Searched(engine) == ret.op = "search" /\ ret.ok /\ ret.via = engine

\* C1: on the Exact (numpy) backend a search lists distinct rows with their
\* own dot-product scores, in non-increasing score order, no row it leaves
\* out scores strictly higher than a row it lists, and for top_k >= 0 it
\* lists min(top_k, number of rows) rows.
C1_ExactTopK ==
    Searched("numpy") =>
        LET sims == Similarities(embeddings.rows, ret.q)
            n == Len(ret.indices)
        IN  /\ Len(ret.scores) = n
            /\ \A i \in 1..n : ret.indices[i] \in 0..(Len(sims) - 1)
            /\ \A i, j \in 1..n : ret.indices[i] = ret.indices[j] => i = j
            /\ \A i \in 1..n : ret.scores[i] = sims[ret.indices[i] + 1]
            /\ \A i \in 1..(n - 1) : ret.scores[i] >= ret.scores[i + 1]
            /\ \A r \in (0..(Len(sims) - 1)) \ Returned(ret.indices) :
                    \A i \in 1..n : sims[r + 1] <= ret.scores[i]
            /\ ret.top_k >= 0 => n = Min(ret.top_k, Len(sims))

\* A numpy search that had to choose: two rows of different scores, one kept.
C1_Witness ==
    /\ Searched("numpy")
    /\ ret.top_k = 1
    /\ Len(embeddings.rows) = 2
    /\ Len(ret.indices) = 1
    /\ Dot(embeddings.rows[1], ret.q) # Dot(embeddings.rows[2], ret.q)

\* C3: among results of equal score on the Exact backend, the smaller row
\* index has the smaller rank.
C3_TiesInDocumentOrder ==
    Searched("numpy") =>
        \A i, j \in 1..Len(ret.indices) :
            (i < j /\ ret.scores[i] = ret.scores[j])
                => ret.indices[i] < ret.indices[j]

\* Two results name the same rows, apart from rows scoring the cutoff (the
\* lowest score either of them lists).
SameApartFromCutoffTies(a, b, sims) ==
    /\ Len(a) = Len(b)
    /\ \A r \in (Returned(a) \ Returned(b)) \cup (Returned(b) \ Returned(a)) :
          /\ \A i \in 1..Len(a) : sims[r + 1] <= sims[a[i] + 1]
          /\ \A i \in 1..Len(b) : sims[r + 1] <= sims[b[i] + 1]

\* What the engine that did not answer the last search can return for the
\* same matrix, query and top_k.
OtherEngineResults ==
    {r \in IF ret.via = "numpy"
           THEN SearchFaiss(BuildFaissIndex(embeddings), ret.q, ret.top_k)
           ELSE SearchNumpy(embeddings, ret.q, ret.top_k) : r.ok}

\* C4: for the same embedding matrix, query and top_k >= 1 the Exact and the
\* Native (flat inner-product) engine return the same rows, apart from rows
\* tied at the cutoff; and where one returns rows the other does too.
C4_EnginesAgree ==
    (ret.op = "search" /\ ret.ok /\ ret.top_k >= 1) =>
        /\ Len(ret.indices) >= 1 => OtherEngineResults # {}
        /\ \A o \in OtherEngineResults :
              SameApartFromCutoffTies(ret.indices, o.indices,
                                      Similarities(embeddings.rows, ret.q))

\* A native search that had to choose between rows of different scores.
C4_Witness ==
    /\ Searched("faiss")
    /\ Len(embeddings.rows) = 2
    /\ Len(ret.indices) = 1
    /\ Dot(embeddings.rows[1], ret.q) # Dot(embeddings.rows[2], ret.q)


(***************************************************************************)
(* Properties of build, save and load on one directory (Spec).             *)
(***************************************************************************)
\* C2: a search with top_k >= 1 that returns, returns exactly
\* min(top_k, num_documents) pairs, num_documents being the count in the
\* metadata.
C2_ResultLength ==
    (ret.op = "search" /\ ret.ok /\ ret.top_k >= 1) =>
        /\ Len(ret.indices) = Min(ret.top_k, metadata.num_documents)
        /\ Len(ret.scores) = Len(ret.indices)

\* The last call was a load on a fresh instance, of what a build followed
\* by a save had persisted.
RoundTrip == ret.op = "load" /\ ret.fresh /\ saved # None

\* C5: after build and save on one instance, load on a fresh instance
\* returns true and holds the same num_documents, embedding_dim, embedding
\* matrix, doc_ids and languages.
C5_RoundTrip ==
    RoundTrip =>
        /\ ret.ok
        /\ embeddings = saved.embeddings
        /\ metadata.num_documents = saved.metadata.num_documents
        /\ metadata.embedding_dim = saved.metadata.embedding_dim
        /\ metadata.doc_ids = saved.metadata.doc_ids
        /\ metadata.languages = saved.metadata.languages

\* A round trip of two documents with their texts, loaded by an instance
\* configured with the other backend.
C5_Witness ==
    /\ RoundTrip
    /\ ret.ok
    /\ Len(embeddings.rows) = 2
    /\ Len(metadata.doc_texts) = 2
    /\ ret.configured # backend

\* C6: after a load that met an error the index is unbuilt: it holds no
\* embeddings and the metadata of an empty index (so search and save fail).
C6_FailedLoadUnbuilt ==
    (ret.op = "load" /\ ~ret.ok /\ ret.why = "error") =>
        /\ embeddings = None
        /\ metadata.num_documents = 0
        /\ metadata.doc_ids = <<>>

\* C7: whenever search is possible, doc_ids, languages, the matrix rows and
\* num_documents agree in number, and doc_texts is empty or has one entry
\* per document.
C7_ParallelStructures ==
    embeddings # None =>
        /\ Len(metadata.doc_ids) = Len(embeddings.rows)
        /\ Len(metadata.languages) = Len(embeddings.rows)
        /\ metadata.num_documents = Len(embeddings.rows)
        /\ \/ metadata.doc_texts = <<>>
           \/ Len(metadata.doc_texts) = metadata.num_documents

\* The artifacts save is about to write.
Written == {SaveOrder[i] : i \in 1..Len(SaveOrder)}

\* C8: when the process dies inside save, every artifact is afterwards its
\* whole previous version or its whole new version.
C8_AtomicPerArtifact ==
    [][ret'.op = "crash" =>
          \A a \in Artifacts :
              \/ files'[a] = files[a]
              \/ a \in Written /\ files'[a] = NewArtifact(a)]_vars

\* C9: a load that finds the embeddings or the metadata artifact absent
\* returns false and leaves backend, embeddings, native structure and
\* metadata as they were.
C9_AbsentLoadIsNoOp ==
    [][(ret'.op = "load" /\ (\/ files[INDEX_FILENAME] = Absent
                             \/ files[METADATA_FILENAME] = Absent)) =>
          /\ ~ret'.ok
          /\ ret'.why = "absent"
          /\ UNCHANGED instance]_vars

\* A built instance whose load found the embeddings but no metadata.
C9_Witness ==
    /\ ret.op = "load"
    /\ ~ret.ok
    /\ ret.why = "absent"
    /\ embeddings # None
    /\ files[INDEX_FILENAME] # Absent
    /\ files[METADATA_FILENAME] = Absent

\* C10: after a successful load the active backend is the one the loaded
\* metadata records, search answers with that engine, and save writes the
\* native artifact exactly when that backend is the native one.
C10_MetadataBackendWins ==
    (ret.op = "load" /\ ret.ok) =>
        /\ backend = JsonLoad(files[METADATA_FILENAME].data).backend
        /\ backend = metadata.backend
        /\ ActiveEngine = metadata.backend
        /\ WritesFaiss <=> metadata.backend = "faiss"

\* A successful load that switched the instance to the other backend.
C10_Witness ==
    /\ ret.op = "load"
    /\ ret.ok
    /\ ret.configured = "numpy"
    /\ backend = "faiss"

\* The last call was a load that found the embeddings and the metadata
\* artifact readable and left the native backend active, where faiss is
\* installed.
NativeLoad ==
    /\ ret.op = "load"
    /\ Readable(INDEX_FILENAME)
    /\ Readable(METADATA_FILENAME)
    /\ backend = "faiss"
    /\ FAISS_AVAILABLE

\* C11: a load on the native backend that finds the embeddings and the
\* metadata readable and the native artifact missing or unreadable returns
\* true, with a native structure rebuilt from exactly the loaded rows.
C11_NativeRebuilt ==
    (NativeLoad /\ ~Readable(FAISS_INDEX_FILENAME)) =>
        /\ ret.ok
        /\ faiss_index = BuildFaissIndex(NpLoad(files[INDEX_FILENAME].data))

(***************************************************************************)
(* Properties of build (SpecSearch).                                       *)
(***************************************************************************)
\* The counts a build was given do not all agree: doc_ids, languages and
\* the matrix rows, and the texts when they are given.
CountsDiffer(counts) == Cardinality(counts) > 1

\* C12: a build whose counts differ fails, and leaves backend, embeddings,
\* native structure and metadata as they were.
C12_MismatchedBuildFails ==
    [][(ret'.op = "build" /\ CountsDiffer(ret'.counts)) =>
          /\ ~ret'.ok
          /\ UNCHANGED instance]_vars

\* A build that failed on an index built on the native backend.
C12_Witness ==
    /\ ret.op = "build"
    /\ ~ret.ok
    /\ ret.error = "AssertionError"
    /\ ret.counts = {MaxDocs - 1, MaxDocs}
    /\ faiss_index # None
    /\ Len(embeddings.rows) = MaxDocs
    /\ metadata.num_documents = MaxDocs

\* C13: after a build that returned, embeddings, doc_ids, languages,
\* doc_texts, num_documents, embedding_dim and, on the native backend, the
\* native structure hold the data of that build and nothing else, and every
\* search that returns lists rows of that build with their scores.
C13_BuildReplaces ==
    (ret.op = "build" /\ ret.ok) =>
        LET e == ret.given[1]
            texts == ret.given[4]
        IN  /\ embeddings = e
            /\ metadata.doc_ids = ret.given[2]
            /\ metadata.languages = ret.given[3]
            /\ metadata.doc_texts = IF texts # None THEN texts.list ELSE <<>>
            /\ metadata.num_documents = Len(e.rows)
            /\ metadata.embedding_dim = e.dim
            /\ backend = "faiss" =>
                  /\ faiss_index # None
                  /\ faiss_index.d = e.dim
                  /\ faiss_index.xb = e.rows
            /\ \A q \in Queries, top_k \in TopKs :
                  \A r \in SearchOutcomes(q, top_k) :
                      r.ok => \A i \in 1..Len(r.indices) :
                                 /\ r.indices[i] \in 0..(Len(e.rows) - 1)
                                 /\ r.scores[i] = Dot(e.rows[r.indices[i] + 1], q)

\* A build on an instance that was built on the native backend and then
\* loaded an index of the other backend: it still holds the native structure
\* of its first build, of other rows than the latest.
C13_Witness ==
    /\ ret.op = "build"
    /\ ret.ok
    /\ backend = "numpy"
    /\ faiss_index # None
    /\ Len(embeddings.rows) >= 1
    /\ Len(faiss_index.xb) >= 1
    /\ faiss_index.xb # embeddings.rows

(***************************************************************************)
(* Properties of the unbuilt index (Spec).                                 *)
(***************************************************************************)
\* No build and no load has succeeded on the instance: it holds no
\* embeddings (build and load both assign them before they succeed), or its
\* last call was a load that found it fresh and returned false.
NeverBuilt ==
    \/ embeddings = None
    \/ ret.op = "load" /\ ~ret.ok /\ ret.fresh

\* C14: on an instance on which no build and no load has succeeded, save
\* raises the not-built error and leaves every artifact as it was, and
\* search raises the not-built error.
C14_NotBuilt ==
    [][(NeverBuilt /\ ret'.op \in {"save", "search"}) =>
          /\ ~ret'.ok
          /\ ret'.error = "ValueError"
          /\ UNCHANGED files]_vars

(***************************************************************************)
(* Properties of get_document_info (SpecInfo).                             *)
(***************************************************************************)
\* C15: get_document_info fails with an out-of-range error for every index
\* below 0 or at or above num_documents, and for every other index returns
\* the doc_id and the language stored at that row.
C15_DocumentInfoRange ==
    ret.op = "info" =>
        IF ret.index \in 0..(metadata.num_documents - 1)
        THEN /\ ret.ok
             /\ ret.result.doc_id = metadata.doc_ids[ret.index + 1]
             /\ ret.result.language = metadata.languages[ret.index + 1]
        ELSE /\ ~ret.ok
             /\ ret.error = "IndexError"

(***************************************************************************)
(* Properties of the metrics and of evaluate_language (SpecEval).          *)
(***************************************************************************)
\* A value within [0, 1].
InUnitInterval(v) == v.den > 0 /\ 0 <= v.num /\ v.num <= v.den

\* The distinct relevant ids found among the first k ranked ids.
RelevantInFirst(retrieved, relevant, k) ==
    {id \in ToSet(relevant) :
        \E i \in 1..Min(k, Len(retrieved)) : retrieved[i] = id}

\* C16: recall is within [0, 1]; it is 0.0 when relevant_ids is empty, and
\* otherwise the number of distinct relevant ids among the first k ranked
\* ids divided by the number of distinct relevant ids.
C16_RecallAtK ==
    ret.op = "recall" =>
        /\ InUnitInterval(ret.value)
        /\ ret.relevant = <<>> => ret.value = Zero
        /\ (ret.relevant # <<>> /\ ret.k >= 0) =>
              ret.value =
                  Frac(Cardinality(RelevantInFirst(ret.retrieved,
                                                   ret.relevant, ret.k)),
                       Cardinality(ToSet(ret.relevant)))

\* A recall of 1.0 for a relevant list that repeats its id and a ranked
\* list that k cuts off before an id that is not relevant.
C16_Witness ==
    /\ ret.op = "recall"
    /\ Len(ret.relevant) > Cardinality(ToSet(ret.relevant))
    /\ ret.k >= 1
    /\ ret.k < Len(ret.retrieved)
    /\ ToSet(ret.retrieved) \ ToSet(ret.relevant) # {}
    /\ ret.value = Frac(1, 1)

\* C17: nDCG is within [0, 1] for every ranked list (repeated ids allowed),
\* every list of relevant ids and every k >= 0.
C17_NdcgInUnitInterval ==
    (ret.op = "ndcg" /\ ret.k >= 0) => InUnitInterval(ret.value)

\* The ranked list has relevant documents in its first
\* min(k, number of distinct relevant ids) positions.
RelevantFirst(retrieved, relevant, k) ==
    LET m == Min(k, Cardinality(ToSet(relevant)))
    IN  /\ Len(retrieved) >= m
        /\ \A i \in 1..m : retrieved[i] \in ToSet(relevant)

\* C18: nDCG is exactly 1.0 when relevant_ids is not empty (whether or not
\* it repeats an id), k >= 1 and the ranked list, here one that repeats no
\* id, has relevant documents in its first min(k, number of distinct
\* relevant ids) positions.
C18_NdcgPerfect ==
    (/\ ret.op = "ndcg"
     /\ ret.relevant # <<>>
     /\ ret.k >= 1
     /\ Cardinality(ToSet(ret.retrieved)) = Len(ret.retrieved)
     /\ RelevantFirst(ret.retrieved, ret.relevant, ret.k)) =>
        ret.value.num = ret.value.den

\* The queries evaluate_language goes through: the query set, cut to
\* max_queries when it is given.
QuerySet == Limit(ret.queries, ret.max_queries)

\* The positions in the query set of the queries that have a qrels entry and
\* whose retrieval succeeded.
Scored ==
    {i \in 1..Len(QuerySet) :
        /\ QuerySet[i] \in DOMAIN ret.qrels
        /\ ret.retriever[QuerySet[i]].ok}

\* The value of a metric for the query at position n of the query set.
MetricOf(name, n) ==
    LET doc_ids == ret.retriever[QuerySet[n]].doc_ids
        relevant == ret.qrels[QuerySet[n]]
    IN  IF name = "ndcg" THEN calculate_ndcg_at_k(doc_ids, relevant, NDCG_K)
        ELSE calculate_recall_at_k(doc_ids, relevant, RECALL_K)

\* The sum of a metric over the scored queries among the first n.
RECURSIVE MetricSum(_, _)
MetricSum(name, n) ==
    IF n = 0 THEN Zero
    ELSE IF n \in Scored
         THEN RatAdd(MetricSum(name, n - 1), MetricOf(name, n))
         ELSE MetricSum(name, n - 1)

\* v is the mean of n values of sum total.
IsMean(v, total, n) == v = Frac(total.num, total.den * n)

\* C19: the report's num_queries is the number of queries of the query set
\* that have a qrels entry and whose retrieval succeeded, and each metric is
\* the mean of that metric over exactly those queries; with no such query
\* both metrics are 0.0 and num_queries is 0.
C19_ReportAverages ==
    ret.op = "evaluate" =>
        /\ ret.ok
        /\ ret.report.num_queries = Cardinality(Scored)
        /\ IF Scored = {}
           THEN /\ ret.report.ndcg = Zero
                /\ ret.report.recall = Zero
           ELSE /\ IsMean(ret.report.ndcg,
                          MetricSum("ndcg", Len(QuerySet)), Cardinality(Scored))
                /\ IsMean(ret.report.recall,
                          MetricSum("recall", Len(QuerySet)),
                          Cardinality(Scored))

\* An evaluation of MaxQueries queries of which one has no qrels entry or
\* failed, and the others were scored with a mean nDCG strictly between 0
\* and 1.
C19_Witness ==
    /\ ret.op = "evaluate"
    /\ ret.ok
    /\ Len(QuerySet) = MaxQueries
    /\ ret.report.num_queries = MaxQueries - 1
    /\ 0 < ret.report.ndcg.num
    /\ ret.report.ndcg.num < ret.report.ndcg.den

\* The queries of the query set that have a qrels entry, in order.
RECURSIVE Judged(_)
Judged(queries) ==
    IF queries = <<>> THEN <<>>
    ELSE IF Head(queries) \in DOMAIN ret.qrels
         THEN <<Head(queries)>> \o Judged(Tail(queries))
         ELSE Judged(Tail(queries))

\* C20: whichever queries' retrievals raise, evaluate_language returns a
\* report, having called the retriever for every query of the query set
\* that has a qrels entry, in order; the failing queries are not counted.
C20_FailuresSkipped ==
    ret.op = "evaluate" =>
        /\ ret.ok
        /\ ret.calls = Judged(QuerySet)
        /\ ret.report.num_queries =
              Cardinality({i \in 1..Len(ret.calls) :
                              ret.retriever[ret.calls[i]].ok})

\* An evaluation whose first retrieval raised and whose last one was scored.
C20_Witness ==
    /\ ret.op = "evaluate"
    /\ ret.ok
    /\ Len(ret.calls) = MaxQueries
    /\ ~ret.retriever[ret.calls[1]].ok
    /\ ret.retriever[ret.calls[MaxQueries]].ok
    /\ ret.report.num_queries >= 1

(***************************************************************************)
(* Properties of evaluate_all_languages (SpecEval).                        *)
(***************************************************************************)
\* C21: evaluate_all_languages returns a mapping with exactly one entry for
\* every configured language; a language whose evaluation raised has both
\* metrics 0.0, num_queries 0 and an error marker, every other language has
\* the report of its evaluation, and every language was evaluated, in order.
C21_AllLanguagesReported ==
    ret.op = "evaluate_all" =>
        /\ ret.ok
        /\ DOMAIN ret.results = ToSet(ret.languages)
        /\ ret.evaluated = ret.languages
        /\ \A l \in ToSet(ret.languages) :
              IF ret.outcomes[l].ok
              THEN ret.results[l] = ret.outcomes[l].report
              ELSE /\ ret.results[l].ndcg = Zero
                   /\ ret.results[l].recall = Zero
                   /\ ret.results[l].num_queries = 0
                   /\ ret.results[l].error = ret.outcomes[l].error

\* The first configured language raised and a later, different one was
\* evaluated and has the report of its evaluation.
C21_Witness ==
    /\ ret.op = "evaluate_all"
    /\ ret.ok
    /\ Len(ret.languages) = MaxLanguages
    /\ ~ret.outcomes[ret.languages[1]].ok
    /\ ret.languages[MaxLanguages] # ret.languages[1]
    /\ ret.outcomes[ret.languages[MaxLanguages]].ok
    /\ ret.results[ret.languages[MaxLanguages]].num_queries = 1
    /\ "error" \in DOMAIN ret.results[ret.languages[1]]

(***************************************************************************)
(* Properties of the retriever (SpecRetrieve).                             *)
(***************************************************************************)
\* A text table was supplied with set_corpus_texts since the retriever was
\* constructed.
TableSupplied == corpus_texts # None

ReturnValue(r) == r.ok

\* C23: a load that fails on an artifact that exists but cannot be read
\* hands its caller something else than a load on a directory whose
\* artifacts are absent does.
C23_CorruptLoadTold ==
    (ret.op = "load" /\ ret.why = "error") =>
        ReturnValue(ret) # ReturnValue(LoadReturn(FALSE, "absent"))

\* The calls the instance is only read by.
ReadOnlyCalls == {"search", "info", "exists", "retrieve"}

\* C24: search, get_document_info, index_exists and retrieve, whether they
\* return or raise, leave the embeddings, the metadata, the backend, the
\* native structure and every artifact on disk as they were, at every call
\* of every run.
C24_ReadOnly ==
    [][ret'.op \in ReadOnlyCalls => UNCHANGED <<instance, files>>]_vars

\* retrieve returned from a built and saved instance with the native
\* backend, all three artifacts being on disk.
C24_Witness ==
    /\ ret.op = "retrieve"
    /\ ret.ok
    /\ Len(ret.results) = MaxDocs
    /\ backend = "faiss"
    /\ faiss_index # None
    /\ \A a \in Artifacts : Readable(a)

(***************************************************************************)
(* Properties of the threaded runs (SpecThreads).                          *)
(***************************************************************************)
\* C25: under every interleaving of a build or load with concurrent
\* retrieve calls, the results of a retrieve pair the row indices with the
\* document ids of the build whose rows the indices were computed from:
\* some build has the array that was searched as its embeddings and gives
\* every returned row the id its result carries.
C25_OneBuildPerRetrieve ==
    (ret.op = "retrieve" /\ ret.ok) =>
        \E x \in ThreadBuildInputs :
            /\ x[1].rows = ret.searched
            /\ \A i \in 1..Len(ret.results) :
                  ret.results[i].doc_id = x[2][ret.indices[i] + 1]

(***************************************************************************)
(* Properties of max_queries (SpecEval).                                   *)
(***************************************************************************)
\* The first n entries of a list, all of it when it has fewer.
FirstN(s, n) == SubSeq(s, 1, Min(n, Len(s)))

\* C26: when max_queries is given (a count, 0 or more), evaluate_language
\* calls the retriever for exactly the queries with a qrels entry among the
\* first max_queries queries of the input, in input order: queries without
\* qrels use up the limit, and no query beyond the limit is retrieved or
\* counted.
C26_FirstMaxQueries ==
    (/\ ret.op = "evaluate"
     /\ ret.max_queries # None
     /\ ret.max_queries.int >= 0) =>
        /\ ret.calls = Judged(FirstN(ret.queries, ret.max_queries.int))
        /\ \A i \in 1..Len(ret.calls) :
              \E j \in 1..Min(ret.max_queries.int, Len(ret.queries)) :
                  ret.queries[j] = ret.calls[i]
        /\ ret.report.num_queries <= ret.max_queries.int

\* An evaluation limited to fewer queries than given, whose first query has
\* no qrels entry and whose query just past the limit has one and would
\* have been retrieved.
C26_Witness ==
    /\ ret.op = "evaluate"
    /\ ret.max_queries # None
    /\ ret.max_queries.int = MaxQueries - 1
    /\ Len(ret.queries) = MaxQueries
    /\ ret.queries[1] \notin DOMAIN ret.qrels
    /\ ret.queries[MaxQueries] \in DOMAIN ret.qrels
    /\ ret.retriever[ret.queries[MaxQueries]].ok
    /\ Len(ret.calls) = MaxQueries - 2

(***************************************************************************)
(* Properties of the search and interactive commands' retrieve             *)
(* (SpecRetrieve).                                                         *)
(***************************************************************************)
\* load has just returned True with an index that was built with document
\* texts and saved, and no text table was supplied to the retriever.
LoadedWithTexts ==
    /\ ret.op = "load"
    /\ ret.ok
    /\ saved # None
    /\ saved.metadata.doc_texts # <<>>
    /\ metadata.doc_texts = saved.metadata.doc_texts
    /\ ~TableSupplied

\* C27: on an index built with document texts, saved and loaded, the call
\* retrieve(query, return_full_text=True) made without any set_corpus_texts
\* call returns only results that carry the text the index stores for their
\* document.
C27_StoredTextReturned ==
    [][(/\ LoadedWithTexts
        /\ ret'.op = "retrieve"
        /\ ret'.ok
        /\ ret'.return_full_text) =>
          \A i \in 1..Len(ret'.results) :
              /\ "text" \in DOMAIN ret'.results[i]
              /\ ret'.results[i].text =
                    metadata.doc_texts[ret'.indices[i] + 1]]_vars

(***************************************************************************)
(* Properties of search with no rows asked for (SpecSearch).               *)
(***************************************************************************)
\* C28: search on a built index with top_k <= 0 returns no (row index,
\* score) pair: its result is empty, or the call fails.
C28_NothingForNoTopK ==
    (ret.op = "search" /\ ret.top_k <= 0 /\ ret.ok) =>
        /\ ret.indices = <<>>
        /\ ret.scores = <<>>

(***************************************************************************)
(* Properties of a directory shared with core instances (SpecShared).      *)
(***************************************************************************)
\* C29: after every load that returns true and leaves the native backend
\* active, whatever saves of VectorIndex instances of either backend and of
\* core instances came before, the native structure holds exactly the rows
\* of the loaded embedding matrix, in their order.
C29_NativeHoldsLoadedRows ==
    (ret.op = "load" /\ ret.ok /\ backend = "faiss") =>
        /\ faiss_index # None
        /\ embeddings # None
        /\ faiss_index.xb = embeddings.rows

(***************************************************************************)
(* Properties of the build command (SpecCommand).                          *)
(***************************************************************************)
\* C30: the build command run without force_rebuild when the embeddings and
\* the metadata artifact both exist does not load the corpus and creates,
\* overwrites and deletes no artifact; it returns whenever the VectorIndex
\* of the requested backend can be constructed.
C30_NoRebuildUnlessForced ==
    [][(/\ ret'.op = "build_index"
        /\ ~ret'.force_rebuild
        /\ Exists(INDEX_FILENAME)
        /\ Exists(METADATA_FILENAME)) =>
          /\ ~ret'.corpus_loaded
          /\ UNCHANGED files
          /\ (ret'.backend = "faiss" => FAISS_AVAILABLE) => ret'.ok]_vars

\* The command returned without loading the corpus, on a directory whose
\* index was built on the other backend from a corpus of MaxDocs documents.
C30_Witness ==
    /\ ret.op = "build_index"
    /\ ret.ok
    /\ ~ret.force_rebuild
    /\ ~ret.corpus_loaded
    /\ Readable(METADATA_FILENAME)
    /\ Readable(INDEX_FILENAME)
    /\ JsonLoad(files[METADATA_FILENAME].data).backend # ret.backend
    /\ JsonLoad(files[METADATA_FILENAME].data).num_documents = MaxDocs
=============================================================================
